---- MODULE Spec2Model ----
(***************************************************************************)
(* Model of ojn-uptimeproxy (src/src/main.rs): one HTTP route,             *)
(* GET /uptime/:domain, that checks the domain against an allowlist,       *)
(* issues one range query to a Prometheus backend and buckets the first    *)
(* returned series into a fixed array of hourly slots.                     *)
(*                                                                         *)
(* Representation choices                                                  *)
(*  - A String is a tuple of one-character strings, so that format! and    *)
(*    "contains" are computed and not assumed.                             *)
(*  - Option<T> is a tuple of length 0 (None) or 1 (Some).                 *)
(*  - A u64 is a record [wrapped, n] that stands for n + 2^64 when wrapped *)
(*    (only a wrapping subtraction yields wrapped = TRUE, with n < 0) and  *)
(*    for n otherwise.  All n stay below 2^31.                             *)
(*  - A sample timestamp is an f64; it is kept as whole seconds `sec` plus *)
(*    a flag `frac` that says a fraction strictly between 0 and 1 follows. *)
(*    Differences of such values are exact in f64 for the magnitudes       *)
(*    modelled (below 2^53).  The backend's timestamps are laid out        *)
(*    relative to the start it was asked for (t0 as i64), so none of them  *)
(*    is near 2^64.                                                        *)
(*  - An f64 sample value is an integer number of hundredths.              *)
(*  - One handler invocation is modelled at a time; handlers share nothing *)
(*    but the read-only CONFIG.                                            *)
(***************************************************************************)
EXTENDS Integers, Sequences, FiniteSets

VARIABLES env, CONFIG, init_by, main_pc, h_pc, domain, t0, sent, reply, response

vars == <<env, CONFIG, init_by, main_pc, h_pc, domain, t0, sent, reply, response>>

(* ------------------------------ bounds --------------------------------- *)

\* longest series the backend returns outside the one-sample grid replies
MaxSamples == 2

\* longest domain_allowlist the environment configures
MaxAllow == 2

(* ---------------------------- constants -------------------------------- *)

NDAYS == 14

HOUR == 3600

(* ------------------------------ strings -------------------------------- *)

dA == <<"a">>

dAB == <<"a", "b">>

dB == <<"b">>

\* domains the environment may list
ConfigDomains == {dA, dAB}

\* domains a client may request: listed ones, and one that is only a
\* substring of a listed one
RequestDomains == {dA, dAB, dB}

\* format!("domain {} is not tracked", domain)
NotTrackedMessage(d) ==
    <<"d", "o", "m", "a", "i", "n", " ">> \o d \o
    <<" ", "i", "s", " ", "n", "o", "t", " ", "t", "r", "a", "c", "k", "e", "d">>

\* e.to_string() of a prometheus_http_query error, by kind
ErrorText(e) ==
    CASE e = "url"    -> <<"u", "r", "l">>
      [] e = "client" -> <<"c", "l", "i", "e", "n", "t">>
      [] e = "api"    -> <<"a", "p", "i">>
      [] OTHER        -> <<"p", "a", "r", "s", "e">>

(* --------------------------- configuration ----------------------------- *)

\* all sequences over S of length at most n
RECURSIVE SeqsUpTo(_, _)
SeqsUpTo(S, n) ==
    IF n = 0 THEN {<<>>}
    ELSE LET shorter == SeqsUpTo(S, n - 1)
         IN  shorter \cup {Append(s, x) : s \in shorter, x \in S}

\* what the UPTIMEPROXY_ environment holds
Environments ==
    [parses : {TRUE}, domain_allowlist : SeqsUpTo(ConfigDomains, MaxAllow),
     url_ok : BOOLEAN]
    \cup
    [parses : {FALSE}, domain_allowlist : {<<>>}, url_ok : {TRUE}]

Uninit == [state |-> "uninit"]

Poisoned == [state |-> "poisoned"]

Ready(e) ==
    [state |-> "ready", domain_allowlist |-> e.domain_allowlist, url_ok |-> e.url_ok]

\* the lazy_static initializer: extract().expect("invalid configuration")
ConfigInit(e) == IF e.parses THEN Ready(e) ELSE Poisoned

\* a dereference of CONFIG: runs the initializer on first access only
LazyDeref(cfg, e) == IF cfg.state = "uninit" THEN ConfigInit(e) ELSE cfg

(* ------------------------------- time ---------------------------------- *)

U64(n) == [wrapped |-> FALSE, n |-> n]

\* a - b on u64 when overflow checks are off
WrappingSub(a, b) == IF a >= b THEN U64(a - b) ELSE [wrapped |-> TRUE, n |-> a - b]

\* x as i64 (two's complement reinterpretation)
AsI64(x) == x.n

\* b^e mod m by repeated multiplication, every intermediate below m * b
RECURSIVE PowMod(_, _, _)
PowMod(b, e, m) == IF e = 0 THEN 1 % m ELSE (PowMod(b, e - 1, m) * b) % m

\* the value of a u64 modulo m
U64Mod(x, m) == IF x.wrapped THEN (PowMod(2, 64, m) + (x.n % m)) % m ELSE x.n % m

\* SystemTime::now(): seconds since the epoch, negative when the clock is
\* set before it
Clocks == {-1, 2 * HOUR + 5, HOUR * 24 * NDAYS, 1793840461}

\* t1 - (t1 % 3600)
FloorToHour(t) == t - (t % HOUR)

\* 3600 * 24 * NDAYS
Window == HOUR * 24 * NDAYS

(* ------------------------------ bucketing ------------------------------ *)

None == <<>>

Some(v) == <<v>>

\* 24 * NDAYS as usize + 1
NBuckets == 24 * NDAYS + 1

\* variant: the boundary slot is forgotten
NewSamplesNoBoundary == [i \in 1..(24 * NDAYS) |-> None]

\* samples.resize(24 * NDAYS + 1, None)
NewSamples == [i \in 1..NBuckets |-> None]

\* (x as i64) for x = whole + fraction: the cast rounds toward zero
TruncToI64(whole, frac) == IF whole < 0 /\ frac THEN whole + 1 ELSE whole

\* a / b on i64, b > 0: the quotient rounds toward zero
DivI64(a, b) == IF a >= 0 THEN a \div b ELSE -((-a) \div b)

\* variant: the index is taken one-based
BucketOneBased(ts, t) ==
    IF t.wrapped THEN -1
    ELSE DivI64(TruncToI64(ts.sec - t.n, ts.frac), HOUR) + 1

\* ((sample.timestamp() - t0 as f64) as i64) / 3600.  Against a wrapped t0
\* (at least 2^63) the difference is below -2^63, the cast saturates at
\* i64::MIN and the quotient is negative; -1 stands for it.
Bucket(ts, t) ==
    IF t.wrapped THEN -1
    ELSE DivI64(TruncToI64(ts.sec - t.n, ts.frac), HOUR)

\* variant: an index past the end is clamped to the last slot
StoreSampleClamped(samples, bucket, v) ==
    IF bucket < 0 THEN samples
    ELSE IF bucket + 1 \in DOMAIN samples
         THEN [samples EXCEPT ![bucket + 1] = Some(v)]
         ELSE [samples EXCEPT ![Len(samples)] = Some(v)]

\* the body of the loop once the bucket is known: skip when negative, write
\* through samples.get_mut(bucket as usize) when it is in bounds
StoreSample(samples, bucket, v) ==
    IF bucket < 0 THEN samples
    ELSE IF bucket + 1 \in DOMAIN samples
         THEN [samples EXCEPT ![bucket + 1] = Some(v)]
         ELSE samples

\* for sample in series[0].samples() { ... }, from sample i on
RECURSIVE FillFrom(_, _, _, _)
FillFrom(samples, series, t, i) ==
    IF i > Len(series) THEN samples
    ELSE FillFrom(StoreSample(samples, Bucket(series[i].timestamp, t), series[i].value),
                  series, t, i + 1)

Bucketize(series, t) == FillFrom(NewSamples, series, t, 1)

(* ------------------------------ responses ------------------------------ *)

ErrorBody(m) == [tag |-> "error", message |-> m]

SuccessBody(d, t, h) == [tag |-> "success", domain |-> d, t0 |-> t, uptime_history |-> h]

\* variant: the rejection keeps the default status
NotFoundAsOk(d) == [status |-> 200, body |-> ErrorBody(NotTrackedMessage(d))]

\* the early return of the handler
NotFoundResponse(d) == [status |-> 404, body |-> ErrorBody(NotTrackedMessage(d))]

\* variant: the error's text is replaced by a fixed one
InternalErrorGeneric(e) ==
    [status |-> 500, body |-> ErrorBody(<<"e", "r", "r", "o", "r">>)]

\* the Err(e) arm of the handler
InternalErrorResponse(e) == [status |-> 500, body |-> ErrorBody(ErrorText(e))]

\* the Ok(v) arm of the handler
OkResponse(v) == [status |-> 200, body |-> v]

\* variant: an empty allowlist admits every domain
AllowlistContainsOrEmpty(list, d) == list = <<>> \/ \E i \in DOMAIN list : list[i] = d

\* CONFIG.domain_allowlist.contains(&domain)
AllowlistContains(list, d) == \E i \in DOMAIN list : list[i] = d

(* ------------------------------- backend ------------------------------- *)

\* sample times the backend may return, relative to the start of the query
SampleTimes ==
    { <<-HOUR, FALSE>>, <<-1, FALSE>>, <<-1, TRUE>>,
      <<5 * HOUR, FALSE>>, <<NBuckets * HOUR - 1, TRUE>>,
      <<NBuckets * HOUR, FALSE>>, <<400 * HOUR, FALSE>> }

Values == {87, 100}

Sample(start, off, v) ==
    [timestamp |-> [sec |-> start + off[1], frac |-> off[2]], value |-> v]

SamplesAt(start) == {Sample(start, off, v) : off \in SampleTimes, v \in Values}

\* a single sample on the hourly grid, for every hour of the window
GridSeries(start) ==
    {<<Sample(start, <<k * HOUR, FALSE>>, v)>> : k \in 0..(NBuckets - 1), v \in Values}

SeriesSet(start) == SeqsUpTo(SamplesAt(start), MaxSamples) \cup GridSeries(start)

\* matrices: no series, one series, or a second series after a short first
Matrices(start) ==
    {<<>>}
    \cup {<<s>> : s \in SeriesSet(start)}
    \cup {<<s, <<Sample(start, <<0, FALSE>>, 100)>> >> : s \in SeqsUpTo(SamplesAt(start), 1)}

\* what `.get().await` can produce for a query that starts at `start`
Replies(start) ==
    [ok : {FALSE}, error : {"client", "api", "parse"}]
    \cup {[ok |-> TRUE, type |-> "vector", series |-> <<>>]}
    \cup [ok : {TRUE}, type : {"matrix"}, series : Matrices(start)]

(* -------------------------------- main --------------------------------- *)

\* variant: main binds without reading CONFIG
MainConfigSkipped(cfg, e) == cfg

\* &CONFIG.bind_address in main: the first dereference of CONFIG
MainConfig(cfg, e) == LazyDeref(cfg, e)

\* who ran the initializer, given CONFIG before and after a dereference
InitBy(before, after, who, old) ==
    IF before.state = "uninit" /\ after.state # "uninit" THEN who ELSE old

\* main: build the route, dereference CONFIG for the bind address, run the
\* server.  A panic of the initializer aborts the process; a listener that
\* cannot bind makes run() return Err and main exit.
Main(bind_ok) ==
    /\ main_pc = "start"
    /\ LET c == MainConfig(CONFIG, env)
       IN  /\ CONFIG' = c
           /\ init_by' = InitBy(CONFIG, c, "main", init_by)
           /\ main_pc' = IF c.state = "poisoned" THEN "aborted"
                         ELSE IF bind_ok THEN "serving" ELSE "exited"
    /\ UNCHANGED <<env, h_pc, domain, t0, sent, reply, response>>

(* ------------------------------- handler ------------------------------- *)

\* query_uptime up to its await: the client, the clock, t1, t0 and the
\* range query.  overflow_checks tells whether the build panics on u64
\* overflow (debug profile) or wraps (release profile).
QueryUptimeStart(c, clock, overflow_checks) ==
    IF ~c.url_ok THEN [kind |-> "err", error |-> "url"]
    ELSE IF clock < 0 THEN [kind |-> "panic"]
    ELSE LET t1 == FloorToHour(clock)
             t  == WrappingSub(t1, Window)
         IN  IF t.wrapped /\ overflow_checks THEN [kind |-> "panic"]
             ELSE [kind |-> "query", t0 |-> t,
                   query |-> [start |-> AsI64(t), end |-> t1, step |-> HOUR]]

\* the handler from the request to its first suspension or its return
Uptime(d, clock, overflow_checks) ==
    /\ main_pc = "serving"
    /\ h_pc = "idle"
    /\ LET c == LazyDeref(CONFIG, env)
           q == QueryUptimeStart(c, clock, overflow_checks)
       IN  /\ CONFIG' = c
           /\ init_by' = InitBy(CONFIG, c, "handler", init_by)
           /\ domain' = d
           /\ reply' = None
           /\ IF c.state # "ready"
              THEN /\ h_pc' = "panicked"
                   /\ response' = None
                   /\ UNCHANGED <<t0, sent>>
              ELSE IF ~AllowlistContains(c.domain_allowlist, d)
              THEN /\ h_pc' = "responded"
                   /\ response' = Some(NotFoundResponse(d))
                   /\ UNCHANGED <<t0, sent>>
              ELSE IF q.kind = "err"
              THEN /\ h_pc' = "responded"
                   /\ response' = Some(InternalErrorResponse(q.error))
                   /\ UNCHANGED <<t0, sent>>
              ELSE IF q.kind = "panic"
              THEN /\ h_pc' = "panicked"
                   /\ response' = None
                   /\ UNCHANGED <<t0, sent>>
              ELSE /\ h_pc' = "awaiting"
                   /\ response' = None
                   /\ t0' = q.t0
                   /\ sent' = Append(sent, q.query)
    /\ UNCHANGED <<env, main_pc>>

\* query_uptime after the await, and the match of the handler on its result
Resume(r) ==
    /\ reply' = Some(r)
    /\ IF ~r.ok
       THEN /\ h_pc' = "responded"
            /\ response' = Some(InternalErrorResponse(r.error))
       ELSE IF r.type # "matrix"
       THEN /\ h_pc' = "panicked"            \* expect("matrix result")
            /\ response' = None
       ELSE IF Len(r.series) = 0
       THEN /\ h_pc' = "panicked"            \* series[0] out of bounds
            /\ response' = None
       ELSE /\ h_pc' = "responded"
            /\ response' = Some(OkResponse(
                   SuccessBody(domain, t0, Bucketize(r.series[1], t0))))
    /\ UNCHANGED <<env, CONFIG, init_by, main_pc, domain, t0, sent>>

\* the backend (or the client library, on a failure) completes the one
\* outstanding query and the handler runs to its end
BackendReply ==
    /\ h_pc = "awaiting"
    /\ \E r \in Replies(sent[Len(sent)].start) : Resume(r)

\* the connection is done with (response written, or dropped after a panic of
\* the handler's task); the next request starts afresh
Close ==
    /\ h_pc \in {"responded", "panicked"}
    /\ h_pc' = "idle"
    /\ domain' = <<>>
    /\ t0' = U64(0)
    /\ sent' = <<>>
    /\ reply' = None
    /\ response' = None
    /\ UNCHANGED <<env, CONFIG, init_by, main_pc>>

(* ---------------------------- specification ---------------------------- *)

Init ==
    /\ env \in Environments
    /\ CONFIG = Uninit
    /\ init_by = "none"
    /\ main_pc = "start"
    /\ h_pc = "idle"
    /\ domain = <<>>
    /\ t0 = U64(0)
    /\ sent = <<>>
    /\ reply = None
    /\ response = None

Next ==
    \/ \E bind_ok \in BOOLEAN : Main(bind_ok)
    \/ \E d \in RequestDomains, clock \in Clocks, oc \in BOOLEAN : Uptime(d, clock, oc)
    \/ BackendReply
    \/ Close

Spec == Init /\ [][Next]_vars

(* ------------------------------ properties ----------------------------- *)

\* needle occurs in hay as a contiguous run
Contains(hay, needle) ==
    \E i \in 0..(Len(hay) - Len(needle)) :
        \A j \in 1..Len(needle) : hay[i + j] = needle[j]

\* the domains the environment lists
Listed == {env.domain_allowlist[i] : i \in DOMAIN env.domain_allowlist}

Responded(status) == response # None /\ response[1].status = status

\* the first series of a matrix reply that has one
FirstSeries == reply[1].series[1]

GotMatrix == reply # None /\ reply[1].ok /\ reply[1].type = "matrix" /\ Len(reply[1].series) > 0

\* floor((timestamp - t0) / 3600) for a timestamp at or after t0; a wrapped
\* t0 (at least 2^63) is after every timestamp
InWindowBucket(ts, t, k) ==
    ~t.wrapped /\ ts.sec >= t.n /\ (ts.sec - t.n) \div 3600 = k

\* timestamp >= t0 + 3600 * 337
BeyondWindow(ts, t) == ~t.wrapped /\ ts.sec >= t.n + 3600 * 337

\* C1: a request for a domain that is not an exact member of the allowlist is
\* answered 404 with an Error envelope whose message contains the domain, and
\* no query is sent to the backend for it.
C1_NotListedIs404 ==
    (h_pc # "idle" /\ env.parses /\ domain \notin Listed)
        => /\ h_pc = "responded"
           /\ Responded(404)
           /\ response[1].body.tag = "error"
           /\ Contains(response[1].body.message, domain)
           /\ sent = <<>>

C1_Witness ==
    /\ Responded(404)
    /\ domain = dA
    /\ env.domain_allowlist = <<dAB>>

\* C2: a backend reply that is not a matrix, or a matrix without series, ends
\* the request with a 500 and an Error envelope with a non-empty message;
\* never a 200 and never a handler that ends without a response.
C2_ShapeFaultIs500 ==
    (reply # None /\ reply[1].ok /\ (reply[1].type # "matrix" \/ Len(reply[1].series) = 0))
        => /\ h_pc = "responded"
           /\ Responded(500)
           /\ response[1].body.tag = "error"
           /\ response[1].body.message # <<>>

\* C3: every slot of the history that holds a value holds the value of a
\* sample whose timestamp is at or after t0 and whose bucket,
\* floor((timestamp - t0) / 3600), is that slot: samples before t0 set no slot.
C3_BeforeWindowDiscarded ==
    Responded(200) =>
        \A k \in DOMAIN response[1].body.uptime_history :
            response[1].body.uptime_history[k] # None =>
                \E i \in DOMAIN FirstSeries :
                    /\ InWindowBucket(FirstSeries[i].timestamp, response[1].body.t0, k - 1)
                    /\ response[1].body.uptime_history[k] = Some(FirstSeries[i].value)

\* C4: the uptime_history of every 200 response has 24*14 + 1 = 337 elements.
C4_HistoryLength ==
    Responded(200) => Len(response[1].body.uptime_history) = 337

C4_Witness ==
    /\ Responded(200)
    /\ Len(FirstSeries) >= 2
    /\ \E k \in DOMAIN response[1].body.uptime_history :
           response[1].body.uptime_history[k] # None

\* C5: the t0 of every 200 response is divisible by 3600.
C5_T0HourAligned ==
    Responded(200) => U64Mod(response[1].body.t0, 3600) = 0

\* C6: when the first series is the single sample (t0 + 3600*k, v) with
\* 0 <= k <= 336, the history has v at index k and None everywhere else.
C6_SingleSample ==
    ( /\ Responded(200)
      /\ Len(FirstSeries) = 1
      /\ ~response[1].body.t0.wrapped
      /\ ~FirstSeries[1].timestamp.frac
      /\ \E k \in 0..336 :
             FirstSeries[1].timestamp.sec = response[1].body.t0.n + 3600 * k )
    => LET k == CHOOSE c \in 0..336 :
                    FirstSeries[1].timestamp.sec = response[1].body.t0.n + 3600 * c
       IN  /\ Len(response[1].body.uptime_history) > k
           /\ \A j \in DOMAIN response[1].body.uptime_history :
                  response[1].body.uptime_history[j] =
                      IF j = k + 1 THEN Some(FirstSeries[1].value) ELSE None

C6_Witness ==
    /\ Responded(200)
    /\ Len(FirstSeries) = 1
    /\ ~response[1].body.t0.wrapped
    /\ FirstSeries[1].timestamp = [sec |-> response[1].body.t0.n + 3600 * 336, frac |-> FALSE]
    /\ response[1].body.uptime_history[337] = Some(87)

\* the samples of a series that are not beyond the window
RECURSIVE WithinWindow(_, _)
WithinWindow(series, t) ==
    IF series = <<>> THEN <<>>
    ELSE IF BeyondWindow(Head(series).timestamp, t)
         THEN WithinWindow(Tail(series), t)
         ELSE <<Head(series)>> \o WithinWindow(Tail(series), t)

\* C7: samples at or beyond t0 + 3600*337 are discarded: a matrix reply with
\* such samples still ends in a 200 whose history has 337 slots and is the
\* history of the reply without them.
C7_BeyondWindowDiscarded ==
    GotMatrix =>
        /\ h_pc = "responded"
        /\ Responded(200)
        /\ Len(response[1].body.uptime_history) = 337
        /\ response[1].body.uptime_history =
               Bucketize(WithinWindow(FirstSeries, response[1].body.t0), response[1].body.t0)

C7_Witness ==
    /\ Responded(200)
    /\ \E i \in DOMAIN FirstSeries :
           /\ BeyondWindow(FirstSeries[i].timestamp, response[1].body.t0)
           /\ FirstSeries[i].timestamp.sec = response[1].body.t0.n + 3600 * 400
    /\ response[1].body.uptime_history[6] = Some(87)

\* C8: status and envelope agree on every response: 200 exactly with Success,
\* 404 or 500 exactly with Error, and no other status.
C8_StatusMatchesEnvelope ==
    response # None =>
        /\ response[1].status \in {200, 404, 500}
        /\ response[1].body.tag \in {"success", "error"}
        /\ (response[1].status = 200) <=> (response[1].body.tag = "success")
        /\ (response[1].status \in {404, 500}) <=> (response[1].body.tag = "error")

C8_Witness ==
    /\ Responded(500)
    /\ response[1].body.tag = "error"
    /\ sent = <<>>

\* C9: a request sends at most one query; when the query fails, the request
\* ends with a 500 whose Error message is the error's text, after that one
\* query and without a Success body.
C9_OneQueryNoRetry ==
    /\ Len(sent) <= 1
    /\ (reply # None /\ ~reply[1].ok)
           => /\ h_pc = "responded"
              /\ Len(sent) = 1
              /\ Responded(500)
              /\ response[1].body = [tag |-> "error", message |-> ErrorText(reply[1].error)]

C9_Witness ==
    /\ reply # None
    /\ ~reply[1].ok
    /\ reply[1].error = "client"
    /\ Responded(500)

\* a state in which the configuration rule holds
ConfigBeforeServing ==
    /\ ~env.parses => (main_pc \in {"start", "aborted"} /\ h_pc = "idle" /\ response = None)
    /\ main_pc = "serving" => (CONFIG = Ready(env) /\ init_by = "main")
    /\ h_pc # "idle" => (env.parses /\ CONFIG = Ready(env) /\ init_by = "main")

\* C10: a configuration that does not parse aborts the process before any
\* request is handled; CONFIG is initialized by main before the server runs,
\* never by a handler, and once initialized it never changes.
C10_ConfigOnceBeforeServing ==
    /\ []ConfigBeforeServing
    /\ [][CONFIG.state # "uninit" => CONFIG' = CONFIG]_vars

C10_Witness ==
    /\ ~env.parses
    /\ main_pc = "aborted"
    /\ CONFIG = Poisoned

====
